---- MODULE Spec2Model ----
(***************************************************************************)
(* tldrstory indexing module (src/python/tldrstory/index.py).              *)
(*                                                                         *)
(* Strings are sequences of one-character strings, so that the regular     *)
(* expressions of Index.baseurl, the LIKE pattern of Index.accept and      *)
(* str.lower() are computed character by character.                        *)
(***************************************************************************)
EXTENDS Integers, Sequences, FiniteSets, TLC

VARIABLES
    pc,         \* position of the process / of the function under check
    arg,        \* arguments of the pure function under check
    ret,        \* its return value
    cfg,        \* keys of the loaded configuration document, and its queries
    mode,       \* what Index.run started: "none", "single" or "schedule"
    errlog,     \* logging.error was called by Index.run
    conn,       \* store connection: "closed" or "open"
    store,      \* rows of the articles table, in insertion order
    labels,     \* rows of the labels table
    committed,  \* database.complete() was called in the current run
    qi,         \* index of the query being executed
    yielded,    \* submissions the current query has returned so far
    builds,     \* embedding builds of the current run
    runs,       \* number of runs started
    clock,      \* wall clock (time.time(), datetime.now())
    now,        \* the "now" the scheduler computed the next run from
    schedule,   \* the next run instant
    sleepArg    \* the argument of the last time.sleep call

vars == <<pc, arg, ret, cfg, mode, errlog, conn, store, labels, committed, qi,
          yielded, builds, runs, clock, now, schedule, sleepArg>>

progVars == <<cfg, mode, errlog, conn, store, labels, committed, qi, yielded,
              builds, runs, clock, now, schedule, sleepArg>>

-----------------------------------------------------------------------------
(* Character strings *)

HTTP  == <<"h", "t", "t", "p">>
SEP   == <<":", "/", "/">>
WWW   == <<"w", "w", "w">>
INDEX == <<"i", "n", "d", "e", "x">>
HTM   == <<"h", "t", "m">>
DOT   == <<".">>
SLASH == <<"/">>
QMARK == <<"?">>

UpperChars == <<"A", "B", "C", "D", "E", "F", "G", "H", "I", "J", "K", "L", "M",
                "N", "O", "P", "Q", "R", "S", "T", "U", "V", "W", "X", "Y", "Z">>
LowerChars == <<"a", "b", "c", "d", "e", "f", "g", "h", "i", "j", "k", "l", "m",
                "n", "o", "p", "q", "r", "s", "t", "u", "v", "w", "x", "y", "z">>

\* str.lower() on one character
LowerChar(c) ==
    IF \E i \in DOMAIN UpperChars : UpperChars[i] = c
    THEN LowerChars[CHOOSE i \in DOMAIN UpperChars : UpperChars[i] = c]
    ELSE c

\* str.lower()
Lower(s) == [i \in DOMAIN s |-> LowerChar(s[i])]

Drop(s, n) == SubSeq(s, n + 1, Len(s))
Take(s, n) == SubSeq(s, 1, n)

\* s.startswith(p)
StartsWith(s, p) == Len(s) >= Len(p) /\ Take(s, Len(p)) = p

\* s.endswith(p)
EndsWith(s, p) == Len(s) >= Len(p) /\ Drop(s, Len(s) - Len(p)) = p

\* p in s
Contains(s, p) ==
    \E i \in 0..(Len(s) - Len(p)) : SubSeq(s, i + 1, i + Len(p)) = p

\* A regular expression of literal characters and "." matches s from its
\* first character on ("." is any character but a line break; the strings
\* here hold none).
MatchAt(s, pattern) ==
    /\ Len(s) >= Len(pattern)
    /\ \A i \in DOMAIN pattern : pattern[i] = "." \/ pattern[i] = s[i]

\* re.search(pattern, s) for such a pattern
Search(pattern, s) ==
    \E i \in 0..(Len(s) - Len(pattern)) : MatchAt(Drop(s, i), pattern)

-----------------------------------------------------------------------------
(* Index.baseurl *)

\* Mutant: url.rsplit("?", 1)[0], the cut at the last "?"
RemoveParameters_Last(url) ==
    IF \E i \in DOMAIN url : url[i] = "?"
    THEN Take(url, (CHOOSE i \in DOMAIN url :
                        url[i] = "?" /\ \A j \in (i + 1)..Len(url) : url[j] # "?") - 1)
    ELSE url

\* url.split("?", 1)[0]
RemoveParameters(url) ==
    IF \E i \in DOMAIN url : url[i] = "?"
    THEN Take(url, (CHOOSE i \in DOMAIN url :
                        url[i] = "?" /\ \A j \in 1..(i - 1) : url[j] # "?") - 1)
    ELSE url

\* re.sub(r"^http(s)?:\/\/(www.)?", "", url)
RemoveLeading(url) ==
    LET afterScheme ==
            IF StartsWith(url, HTTP \o <<"s">> \o SEP)
            THEN Drop(url, Len(HTTP) + 1 + Len(SEP))
            ELSE Drop(url, Len(HTTP) + Len(SEP))
    IN  IF StartsWith(url, HTTP \o SEP) \/ StartsWith(url, HTTP \o <<"s">> \o SEP)
        THEN IF MatchAt(afterScheme, WWW \o DOT)
             THEN Drop(afterScheme, Len(WWW) + 1)
             ELSE afterScheme
        ELSE url

\* re.sub(r"(index.htm(l)?)$", "", url)
RemoveIndex(url) ==
    LET long  == INDEX \o DOT \o HTM \o <<"l">>
        short == INDEX \o DOT \o HTM
    IN  IF Len(url) >= Len(long) /\ MatchAt(Drop(url, Len(url) - Len(long)), long)
        THEN Take(url, Len(url) - Len(long))
        ELSE IF Len(url) >= Len(short)
                /\ MatchAt(Drop(url, Len(url) - Len(short)), short)
             THEN Take(url, Len(url) - Len(short))
             ELSE url

\* re.sub(r"\/?$", "", url): the one slash before the end of the string
RemoveTrailingSlash(url) ==
    IF EndsWith(url, SLASH) THEN Take(url, Len(url) - 1) ELSE url

baseurl(url) ==
    RemoveTrailingSlash(RemoveIndex(RemoveLeading(RemoveParameters(url))))

-----------------------------------------------------------------------------
(* Index.accept *)

\* SQLite's "s LIKE pattern": % is any run of characters, _ is any one
\* character, any other character matches without regard to ASCII case.
RECURSIVE Like(_, _)
Like(s, pattern) ==
    IF pattern = <<>> THEN s = <<>>
    ELSE IF Head(pattern) = "%"
         THEN \E k \in 0..Len(s) : Like(Drop(s, k), Tail(pattern))
         ELSE /\ s # <<>>
              /\ Head(pattern) = "_" \/ LowerChar(Head(pattern)) = LowerChar(Head(s))
              /\ Like(Tail(s), Tail(pattern))

\* Mutant: SELECT 1 FROM articles WHERE Id=?
Lookup_IdOnly(database, id, pattern) ==
    \E i \in DOMAIN database : database[i].Id = id

\* SELECT 1 FROM articles WHERE Id=? OR Reference LIKE ?, then fetchone()
Lookup(database, id, pattern) ==
    \E i \in DOMAIN database :
        database[i].Id = id \/ Like(database[i].Reference, pattern)

\* Mutant: the self-post test is left out
accept_NoSelfTest(database, submission, ignore) ==
    LET base == baseurl(submission.url)
    IN  /\ ~Lookup(database, submission.id, <<"%">> \o base \o <<"%">>)
        /\ StartsWith(submission.url, HTTP)
        /\ \A i \in DOMAIN ignore : ~Search(ignore[i], submission.url)

accept(database, submission, ignore) ==
    LET base == baseurl(submission.url)
    IN  /\ ~Lookup(database, submission.id, <<"%">> \o base \o <<"%">>)
        /\ ~submission.is_self
        /\ StartsWith(submission.url, HTTP)
        /\ \A i \in DOMAIN ignore : ~Search(ignore[i], submission.url)

-----------------------------------------------------------------------------
(* URLs the normalizer is applied to *)

MaxSlashes == 2

Slashes(n) == [i \in 1..n |-> "/"]

Schemes == {HTTP \o SEP, HTTP \o <<"s">> \o SEP,
            HTTP \o SEP \o WWW \o DOT, HTTP \o <<"s">> \o SEP \o WWW \o DOT}

Hosts == {<<"e", "x", "a", "m", "p", "l", "e", ".", "c", "o", "m", "/", "a">>,
          <<"e", ".", "c", "o">>,
          WWW \o <<".", "e", ".", "c", "o">>}

IndexNames == {INDEX \o DOT \o HTM \o <<"l">>, INDEX \o DOT \o HTM}

Queries == {QMARK \o <<"x", "=", "1">>, QMARK \o <<"x">> \o QMARK \o <<"y">>}

Paths == {h \o t \o Slashes(n) :
            h \in Hosts, t \in {<<>>, SLASH} \cup IndexNames, n \in 0..MaxSlashes}

Urls == {s \o p \o q : s \in Schemes \cup {<<>>}, p \in Paths, q \in Queries \cup {<<>>}}

HasQuery(u) == \E i \in DOMAIN u : u[i] = "?"

\* The URLs that differ from u by one of: a query string, a leading scheme
\* (with or without www.), a trailing index document, trailing slashes.
Variants(u) ==
    {u \o q : q \in IF HasQuery(u) THEN {} ELSE Queries}
    \cup {s \o u : s \in Schemes}
    \cup {u \o x : x \in IF HasQuery(u) THEN {} ELSE IndexNames}
    \cup {u \o Slashes(n) : n \in IF HasQuery(u) THEN {} ELSE 1..MaxSlashes}

ExampleA == HTTP \o <<"s">> \o SEP \o WWW \o DOT
            \o <<"e", "x", "a", "m", "p", "l", "e", ".", "c", "o", "m", "/", "a">>
            \o SLASH \o INDEX \o DOT \o HTM \o <<"l">> \o QMARK \o <<"x", "=", "1">>
ExampleB == HTTP \o SEP
            \o <<"e", "x", "a", "m", "p", "l", "e", ".", "c", "o", "m", "/", "a">> \o SLASH
ExampleC == <<"e", "x", "a", "m", "p", "l", "e", ".", "c", "o", "m", "/", "a">>

UrlPairs ==
    {<<u, v>> : u \in {ExampleA, ExampleB, ExampleC}, v \in {ExampleA, ExampleB, ExampleC}}
    \cup UNION {{<<u, v>> : v \in Variants(u)} : u \in Urls}

-----------------------------------------------------------------------------
(* The program's variables while a pure function is under check *)

ProgIdle ==
    /\ cfg = [keys |-> {}, queries |-> 0]
    /\ mode = "none"
    /\ errlog = FALSE
    /\ conn = "closed"
    /\ store = <<>>
    /\ labels = <<>>
    /\ committed = FALSE
    /\ qi = 0
    /\ yielded = <<>>
    /\ builds = <<>>
    /\ runs = 0
    /\ clock = 0
    /\ now = 0
    /\ schedule = 0
    /\ sleepArg = 0

(* Index.baseurl applied to a pair of URLs, and applied twice to the first *)

InitUrl ==
    /\ pc = "call"
    /\ \E p \in UrlPairs : arg = [a |-> p[1], b |-> p[2]]
    /\ ret = [a |-> <<>>, b |-> <<>>, aa |-> <<>>]
    /\ ProgIdle

Normalize ==
    /\ pc = "call"
    /\ ret' = [a |-> baseurl(arg.a), b |-> baseurl(arg.b), aa |-> baseurl(baseurl(arg.a))]
    /\ pc' = "return"
    /\ UNCHANGED <<arg, progVars>>

NextUrl == Normalize

SpecUrl == InitUrl /\ [][NextUrl]_vars

\* C4: URLs that differ only by a query string, a leading scheme (+ www.),
\* a trailing index.html / index.htm or any number of trailing slashes
\* normalize to the same string.
C4_SameBaseUrl == pc = "return" => ret.a = ret.b

\* C10 as stated: baseurl(baseurl(u)) = baseurl(u) for every URL u.
C10_Idempotent == pc = "return" => ret.aa = ret.a

\* A string Index.baseurl would still shorten: a leading scheme, a trailing
\* index document or a trailing slash.
Strippable(u) ==
    \/ StartsWith(u, HTTP \o SEP)
    \/ StartsWith(u, HTTP \o <<"s">> \o SEP)
    \/ (Len(u) >= 9 /\ MatchAt(Drop(u, Len(u) - 9), INDEX \o DOT \o HTM))
    \/ (Len(u) >= 10 /\ MatchAt(Drop(u, Len(u) - 10), INDEX \o DOT \o HTM \o <<"l">>))
    \/ EndsWith(u, SLASH)

\* C10 amended: baseurl(baseurl(u)) = baseurl(u) for every URL u whose
\* baseurl(u) has no leading scheme, trailing index document or trailing
\* slash left (the result never holds a "?").
C10_IdempotentWhenStripped ==
    pc = "return" /\ ~Strippable(ret.a) => ret.aa = ret.a

C10_Witness ==
    pc = "return" /\ ~Strippable(ret.a) /\ ret.a # arg.a /\ HasQuery(arg.a) /\ ret.aa = ret.a

-----------------------------------------------------------------------------
(* Index.accept applied to a store, a submission and an ignore list *)

MaxRows == 2

ECO == <<"e", ".", "c", "o">>

UrlA       == HTTP \o SEP \o ECO \o <<"/", "a">>
UrlASame   == HTTP \o <<"s">> \o SEP \o WWW \o DOT \o ECO \o <<"/", "a", "/">>
                   \o QMARK \o <<"x", "=", "1">>
UrlALonger == HTTP \o SEP \o ECO \o <<"/", "a", "b", "c">>
UrlAWild   == HTTP \o SEP \o ECO \o <<"/", "a", "_", "c">>
UrlAUpper  == HTTP \o SEP \o ECO \o <<"/", "A">>
UrlZ       == HTTP \o SEP \o ECO \o <<"/", "z">>
UrlAds     == HTTP \o SEP \o <<"a", "d", "s", "1", ".", "c", "o">>
UrlFtp     == <<"f", "t", "p">> \o SEP \o ECO \o <<"/", "q">>
UrlSelf    == HTTP \o <<"s">> \o SEP \o <<"r", ".", "c", "o", "/", "s">>

IgnoreAds == <<"a", "d", "s", ".">>
IgnoreZ   == <<"/", "z">>

Ids == {"p1", "p2"}

AcceptUrls == {UrlA, UrlASame, UrlALonger, UrlAWild, UrlAUpper, UrlAds, UrlFtp}

StoredRows == {[Id |-> i, Reference |-> r] : i \in Ids, r \in {UrlA, UrlALonger, UrlZ}}

Databases == UNION {[1..n -> StoredRows] : n \in 0..MaxRows}

IgnoreLists == {<<>>, <<IgnoreAds>>, <<IgnoreZ>>, <<IgnoreZ, IgnoreAds>>}

InitAccept ==
    /\ pc = "call"
    /\ \E d \in Databases, i \in Ids, u \in AcceptUrls, self \in BOOLEAN, ig \in IgnoreLists :
           arg = [database |-> d,
                  submission |-> [id |-> i, url |-> u, is_self |-> self],
                  ignore |-> ig]
    /\ ret = FALSE
    /\ ProgIdle

Accept ==
    /\ pc = "call"
    /\ ret' = accept(arg.database, arg.submission, arg.ignore)
    /\ pc' = "return"
    /\ UNCHANGED <<arg, progVars>>

NextAccept == Accept

SpecAccept == InitAccept /\ [][NextAccept]_vars

\* The rejection conditions as the filter's contract words them
SameId(database, submission) ==
    \E i \in DOMAIN database : database[i].Id = submission.id

BaseInReference(database, submission) ==
    \E i \in DOMAIN database : Contains(database[i].Reference, baseurl(submission.url))

Ignored(submission, ignore) ==
    \E i \in DOMAIN ignore : Search(ignore[i], submission.url)

Rejection(database, submission, ignore) ==
    \/ SameId(database, submission)
    \/ BaseInReference(database, submission)
    \/ submission.is_self
    \/ ~StartsWith(submission.url, HTTP)
    \/ Ignored(submission, ignore)

\* C2: accept returns false whenever a stored article has the submission's
\* id, or a stored reference contains its normalized URL, or it is a
\* self-post, or its URL does not start with http, or it matches an ignore
\* pattern.
C2_RejectsWhenAnyConditionHolds ==
    pc = "return" /\ Rejection(arg.database, arg.submission, arg.ignore) => ret = FALSE

\* a duplicate by reference only: ids differ, everything else would pass
C2_Witness ==
    /\ pc = "return"
    /\ BaseInReference(arg.database, arg.submission)
    /\ ~SameId(arg.database, arg.submission)
    /\ ~arg.submission.is_self
    /\ StartsWith(arg.submission.url, HTTP)
    /\ ~Ignored(arg.submission, arg.ignore)
    /\ ret = FALSE

\* C3: accept returns true whenever none of the rejection conditions holds.
C3_AcceptsWhenNoConditionHolds ==
    pc = "return" /\ ~Rejection(arg.database, arg.submission, arg.ignore) => ret = TRUE

-----------------------------------------------------------------------------
(* The indexing process: Index.run, Index.schedule, Index.execute *)

MaxResults == 2     \* submissions one search returns
MaxClock   == 3     \* no run is scheduled, and no time passes, from this instant on
Period     == 2     \* the cron expression: every Period-th instant

QueryCounts == {0, 1, 2}

Submission(id, url, self, name, title) ==
    [id |-> id, url |-> url, is_self |-> self, title |-> title,
     created_utc |-> 0, display_name |-> name]

SubA == Submission("p1", UrlA,       FALSE, <<"P", "y">>, "t1")
SubB == Submission("p2", UrlASame,   FALSE, <<"P", "y">>, "t2")
SubC == Submission("p3", UrlALonger, FALSE, <<"M", "L">>, "t3")
SubD == Submission("p1", UrlZ,       FALSE, <<"P", "y">>, "t1")
SubS == Submission("p5", UrlSelf,    TRUE,  <<"P", "y">>, "t5")
SubI == Submission("p6", UrlAds,     FALSE, <<"M", "L">>, "t6")

\* what the platform's search can return
Submissions == {SubA, SubB, SubC, SubD, SubS, SubI}

\* api["ignore"] and index["labels"] of the configuration
ApiIgnore == <<IgnoreAds>>
LabelSets == <<[name |-> "topic", values |-> <<"news">>]>>

\* croniter(expression, start).get_next(): the first tick after start
CronNext(start) == ((start \div Period) + 1) * Period

Init ==
    /\ pc = "run"
    /\ arg = <<>>
    /\ ret = <<>>
    /\ \E k \in SUBSET {"name", "api", "schedule"}, n \in QueryCounts :
           /\ "api" \notin k => n = 0
           /\ cfg = [keys |-> k, queries |-> n]
    /\ mode = "none"
    /\ errlog = FALSE
    /\ conn = "closed"
    /\ store = <<>>
    /\ labels = <<>>
    /\ committed = FALSE
    /\ qi = 0
    /\ yielded = <<>>
    /\ builds = <<>>
    /\ runs = 0
    /\ clock = 0
    /\ now = 0
    /\ schedule = 0
    /\ sleepArg = 0

\* Mutant: "name" not in index and "api" not in index
Run_And ==
    /\ pc = "run"
    /\ IF "name" \notin cfg.keys /\ "api" \notin cfg.keys
       THEN errlog' = TRUE /\ pc' = "exit" /\ mode' = mode
       ELSE IF "schedule" \in cfg.keys
            THEN errlog' = errlog /\ pc' = "schedule" /\ mode' = "schedule"
            ELSE errlog' = errlog /\ pc' = "execute" /\ mode' = "single"
    /\ UNCHANGED <<arg, ret, cfg, conn, store, labels, committed, qi, yielded,
                   builds, runs, clock, now, schedule, sleepArg>>

\* Index.run
Run ==
    /\ pc = "run"
    /\ IF "name" \notin cfg.keys \/ "api" \notin cfg.keys
       THEN errlog' = TRUE /\ pc' = "exit" /\ mode' = mode
       ELSE IF "schedule" \in cfg.keys
            THEN errlog' = errlog /\ pc' = "schedule" /\ mode' = "schedule"
            ELSE errlog' = errlog /\ pc' = "execute" /\ mode' = "single"
    /\ UNCHANGED <<arg, ret, cfg, conn, store, labels, committed, qi, yielded,
                   builds, runs, clock, now, schedule, sleepArg>>

\* Index.schedule: croniter(index["schedule"], datetime.now()).get_next()
ScheduleNext ==
    /\ pc = "schedule"
    /\ clock < MaxClock
    /\ now' = clock
    /\ schedule' = CronNext(clock)
    /\ pc' = "sleep"
    /\ UNCHANGED <<arg, ret, cfg, mode, errlog, conn, store, labels, committed,
                   qi, yielded, builds, runs, clock, sleepArg>>

\* Time passes: before the scheduler reads time.time(), and during a run.
Elapse ==
    /\ pc \in {"sleep", "close"}
    /\ clock < MaxClock
    /\ clock' = clock + 1
    /\ UNCHANGED <<pc, arg, ret, cfg, mode, errlog, conn, store, labels,
                   committed, qi, yielded, builds, runs, now, schedule, sleepArg>>

\* Index.schedule: time.sleep(schedule.timestamp() - time.time()), which
\* raises ValueError for a negative argument.
Sleep ==
    /\ pc = "sleep"
    /\ sleepArg' = schedule - clock
    /\ IF schedule - clock >= 0
       THEN clock' = schedule /\ pc' = "execute"
       ELSE clock' = clock /\ pc' = "failed"
    /\ UNCHANGED <<arg, ret, cfg, mode, errlog, conn, store, labels, committed,
                   qi, yielded, builds, runs, now, schedule>>

\* Index.execute up to the query loop
Execute ==
    /\ pc = "execute"
    /\ conn' = "open"
    /\ committed' = FALSE
    /\ builds' = <<>>
    /\ qi' = 1
    /\ yielded' = <<>>
    /\ runs' = runs + 1
    /\ pc' = "search"
    /\ UNCHANGED <<arg, ret, cfg, mode, errlog, store, labels, clock, now,
                   schedule, sleepArg>>

\* Mutant: display_name without .lower()
Article_NoLower(submission, entry) ==
    [Id |-> submission.id, Source |-> submission.display_name,
     Published |-> submission.created_utc, Title |-> submission.title,
     Reference |-> submission.url, Entry |-> entry]

\* the article row of an accepted submission
Article(submission, entry) ==
    [Id |-> submission.id, Source |-> Lower(submission.display_name),
     Published |-> submission.created_utc, Title |-> submission.title,
     Reference |-> submission.url, Entry |-> entry]

\* classifier(submission.title, config["values"]) ranks the candidate values;
\* one row (None, id, name, value, score) per result, scores left out
RECURSIVE LabelRowsFrom(_, _)
LabelRowsFrom(submission, i) ==
    IF i > Len(LabelSets) THEN <<>>
    ELSE [k \in DOMAIN LabelSets[i].values |->
             [Article |-> submission.id, Name |-> LabelSets[i].name,
              Label |-> LabelSets[i].values[k]]]
         \o LabelRowsFrom(submission, i + 1)

LabelRows(submission) == LabelRowsFrom(submission, 1)

\* database.save((article, labels))
Save(article, rows) ==
    /\ store' = Append(store, article)
    /\ labels' = labels \o rows

\* Index.execute: one submission of the current search
Process ==
    /\ pc = "search"
    /\ qi <= cfg.queries
    /\ Len(yielded) < MaxResults
    /\ \E submission \in Submissions :
        /\ yielded' = Append(yielded, submission)
        /\ IF accept(store, submission, ApiIgnore)
           THEN Save(Article(submission, clock), LabelRows(submission))
           ELSE UNCHANGED <<store, labels>>
    /\ UNCHANGED <<pc, arg, ret, cfg, mode, errlog, conn, committed, qi, builds,
                   runs, clock, now, schedule, sleepArg>>

\* Index.execute: the search is exhausted, on to the next query
NextQuery ==
    /\ pc = "search"
    /\ qi <= cfg.queries
    /\ qi' = qi + 1
    /\ yielded' = IF qi < cfg.queries THEN <<>> ELSE yielded
    /\ UNCHANGED <<pc, arg, ret, cfg, mode, errlog, conn, store, labels,
                   committed, builds, runs, clock, now, schedule, sleepArg>>

\* Index.execute: database.complete()
Complete ==
    /\ pc = "search"
    /\ qi > cfg.queries
    /\ committed' = TRUE
    /\ pc' = "embeddings"
    /\ UNCHANGED <<arg, ret, cfg, mode, errlog, conn, store, labels, qi, yielded,
                   builds, runs, clock, now, schedule, sleepArg>>

\* Mutant: only the articles entered in this run are indexed
Embeddings_Incremental ==
    /\ pc = "embeddings"
    /\ builds' = Append(builds,
                    LET new == SelectSeq(store, LAMBDA r : r.Entry = clock)
                    IN  [i \in DOMAIN new |-> <<new[i].Id, new[i].Title>>])
    /\ pc' = "close"
    /\ UNCHANGED <<arg, ret, cfg, mode, errlog, conn, store, labels, committed,
                   qi, yielded, runs, clock, now, schedule, sleepArg>>

\* Index.embeddings: SELECT Id, Title FROM articles, index, save
Embeddings ==
    /\ pc = "embeddings"
    /\ builds' = Append(builds, [i \in DOMAIN store |-> <<store[i].Id, store[i].Title>>])
    /\ pc' = "close"
    /\ UNCHANGED <<arg, ret, cfg, mode, errlog, conn, store, labels, committed,
                   qi, yielded, runs, clock, now, schedule, sleepArg>>

\* Index.execute: database.close(), and the return to the caller
Close ==
    /\ pc = "close"
    /\ conn' = "closed"
    /\ pc' = IF mode = "schedule" THEN "schedule" ELSE "done"
    /\ UNCHANGED <<arg, ret, cfg, mode, errlog, store, labels, committed, qi,
                   yielded, builds, runs, clock, now, schedule, sleepArg>>

\* The platform client, the classifier, the store or the embedding build
\* raises: nothing in Index.execute, Index.schedule or Index.run catches it.
Raise ==
    /\ pc \in {"search", "embeddings", "close"}
    /\ pc' = "failed"
    /\ UNCHANGED <<arg, ret, progVars>>

Next ==
    \/ Run
    \/ ScheduleNext
    \/ Elapse
    \/ Sleep
    \/ Execute
    \/ Process
    \/ NextQuery
    \/ Complete
    \/ Embeddings
    \/ Close
    \/ Raise

Spec == Init /\ [][Next]_vars

-----------------------------------------------------------------------------
(* Properties of the indexing process *)

\* a run of Index.execute has returned to its caller
RunEnded == runs > 0 /\ pc \in {"done", "schedule"}

External(submission) ==
    /\ ~submission.is_self
    /\ StartsWith(submission.url, HTTP)
    /\ ~Ignored(submission, ApiIgnore)

HasUpper(s) == \E i \in DOMAIN s : \E k \in DOMAIN UpperChars : UpperChars[k] = s[i]

Stored(submission) ==
    \E i \in DOMAIN store :
        /\ store[i].Id = submission.id
        /\ store[i].Reference = submission.url
        /\ store[i].Title = submission.title
        /\ store[i].Source = Lower(submission.display_name)
        /\ ~HasUpper(store[i].Source)

\* C1: no two stored articles have the same id, and no two have URLs whose
\* baseurl normalizations are equal, after any sequence of runs.
C1_NoDuplicateArticles ==
    \A i, j \in DOMAIN store :
        i # j => /\ store[i].Id # store[j].Id
                 /\ baseurl(store[i].Reference) # baseurl(store[j].Reference)

\* a second run has stored an article next to an earlier run's, and a
\* submission with a new id and a new URL but a stored base URL was skipped
C1_Witness ==
    /\ runs > 1
    /\ Len(store) > 1
    /\ \E k \in DOMAIN yielded :
        /\ \A i \in DOMAIN store : store[i].Id # yielded[k].id
        /\ \A i \in DOMAIN store : store[i].Reference # yielded[k].url
        /\ \E i \in DOMAIN store :
               baseurl(store[i].Reference) = baseurl(yielded[k].url)

\* the end of a first run (empty store before it) whose single query
\* returned two distinct external submissions
TwoReturned ==
    /\ RunEnded
    /\ runs = 1
    /\ cfg.queries = 1
    /\ Len(yielded) = 2
    /\ yielded[1] # yielded[2]
    /\ External(yielded[1])
    /\ External(yielded[2])

BothPersistedAndIndexed ==
    /\ Len(store) = 2
    /\ Stored(yielded[1])
    /\ Stored(yielded[2])
    /\ Len(builds) = 1
    /\ Len(builds[1]) = 2
    /\ {builds[1][i] : i \in DOMAIN builds[1]}
         = {<<yielded[k].id, yielded[k].title>> : k \in {1, 2}}

\* C5 as stated: on an empty store, a single query returning two distinct
\* external, non-self, http, non-ignored submissions persists both (community
\* names lowercased) and the embedding build gets exactly their two
\* (id, title) pairs.
C5_BothPersisted == TwoReturned => BothPersistedAndIndexed

\* the duplicate lookup of the later submission matches the earlier one
LaterMatchesEarlier ==
    \/ yielded[2].id = yielded[1].id
    \/ Like(yielded[1].url, <<"%">> \o baseurl(yielded[2].url) \o <<"%">>)

\* C5 amended: ... provided the two submissions have different ids and the
\* earlier one's URL does not match the LIKE pattern %baseurl(later URL)%,
\* both are persisted and the build gets exactly their two (id, title) pairs.
C5_BothPersistedUnlessDuplicate ==
    TwoReturned /\ ~LaterMatchesEarlier => BothPersistedAndIndexed

C5_Witness ==
    /\ TwoReturned
    /\ ~LaterMatchesEarlier
    /\ BothPersistedAndIndexed
    /\ HasUpper(yielded[1].display_name)

\* C6: the next run instant is strictly after the "now" it was computed
\* from, and the sleep duration (that instant minus the current time at the
\* wait) is never negative, whatever time passes before the wait.
C6_SleepNeverNegative ==
    /\ pc = "sleep" => schedule > now
    /\ pc = "failed" /\ conn = "closed" => sleepArg = schedule - clock
    /\ sleepArg >= 0

\* C7: the store connection a run opened is closed when the run ends,
\* normally or by a failure propagating out of it.
C7_ConnectionReleased ==
    pc \in {"done", "schedule", "failed"} => conn = "closed"

Valid == "name" \in cfg.keys /\ "api" \in cfg.keys

\* C8: without "name" or without "api" Index.run logs the error and starts
\* nothing (no store opened, no search, no article saved, no build); the
\* scheduler is started exactly when both are present with "schedule", a
\* single run exactly when both are present without it.
C8_ValidationPrecedesRun ==
    /\ ~Valid => /\ pc \in {"run", "exit"}
                 /\ pc = "exit" => errlog
                 /\ mode = "none"
                 /\ conn = "closed"
                 /\ runs = 0
                 /\ store = <<>> /\ labels = <<>> /\ builds = <<>> /\ yielded = <<>>
    /\ Valid => /\ ~errlog
                /\ pc # "exit"
                /\ pc # "run" => mode = IF "schedule" \in cfg.keys THEN "schedule" ELSE "single"
    /\ mode = "single" => pc \notin {"schedule", "sleep"}
    /\ mode = "schedule" => pc # "done"

C8_Witness ==
    /\ pc = "exit"
    /\ errlog
    /\ "name" \in cfg.keys
    /\ "schedule" \in cfg.keys
    /\ "api" \notin cfg.keys

\* C9: a run that completes builds the embedding index exactly once, after
\* every save of the run and after database.complete(), before
\* database.close(), over the (id, title) pairs of all stored articles.
C9_FullRebuildOnce ==
    /\ pc \in {"search", "embeddings"} => builds = <<>>
    /\ builds # <<>> =>
        /\ Len(builds) = 1
        /\ committed
        /\ Len(builds[1]) = Len(store)
        /\ \A i \in DOMAIN store : builds[1][i] = <<store[i].Id, store[i].Title>>
    /\ pc = "close" => Len(builds) = 1 /\ conn = "open"
    /\ RunEnded => Len(builds) = 1 /\ conn = "closed"

\* the build of a second run holds an article of the first run and one of
\* the second
C9_Witness ==
    /\ RunEnded
    /\ runs = 2
    /\ Len(builds) = 1
    /\ Len(builds[1]) > 1
    /\ store[1].Entry < store[Len(store)].Entry

====
